---- MODULE Spec2Model ----
(***************************************************************************)
(* A model of the ChiaNode controller of chia-operator:                    *)
(*   - the resource synthesis (assemble*Service, assembleStatefulset and   *)
(*     the helpers they call) as operators over a ChiaNode value;          *)
(*   - ChiaNodeReconciler.Reconcile as a process per ChiaNode name whose   *)
(*     steps are its calls to the cluster store (Get, five                 *)
(*     ReconcileResource calls, Status().Update), each of which may fail.  *)
(* Two specifications are given: Spec (the reconciliation passes against   *)
(* the store, with a user creating, editing and deleting the ChiaNode) and *)
(* SpecSynth (the synthesis applied to every ChiaNode value of a bounded   *)
(* input set).                                                             *)
(***************************************************************************)
EXTENDS Integers, Sequences, FiniteSets, TLC

VARIABLES
    crs,        \* the ChiaNode objects of the store, by name
    store,      \* the child objects of the store, by <<kind, namespace, name>>
    pc,         \* per name: where its reconciliation pass stands
    node,       \* per name: the pass-local copy `node` filled by r.Get
    trace,      \* per name: the store requests of the current pass, with their errors
    ret,        \* per name: what the last finished pass returned
    first,      \* per name and child: the selector first submitted (history)
    budget,     \* per name: user operations (create/edit/delete) still allowed
    nextUID,    \* the UID the store gives the next created ChiaNode
    synthIn,    \* SpecSynth: the ChiaNode value given to the synthesis
    synthOut    \* SpecSynth: the manifests synthesized from synthIn

vars == <<crs, store, pc, node, trace, ret, first, budget, nextUID, synthIn, synthOut>>

passVars == <<crs, store, pc, node, trace, ret, first, budget, nextUID>>

synthVars == <<synthIn, synthOut>>

-----------------------------------------------------------------------------
(* Bounds of the model *)

\* user operations (create, edit, delete) per ChiaNode name in Spec
MaxUserOps == 3

-----------------------------------------------------------------------------
(* Program constants *)

mainnetNodePort == 8444

testnetNodePort == 58444

nodeRPCPort == 8555

daemonPort == 55400

chiaExporterPort == 9914

defaultChiaExporterImage == "ghcr.io/chia-network/chia-exporter:latest"

controllerOwner == TRUE

\* reconciler.StatePresent / reconciler.StateAbsent of operator-tools
StatePresent == "Present"

StateAbsent == "Absent"

-----------------------------------------------------------------------------
(* Go maps (map[string]string) as functions; a nil map ranges as empty *)

EmptyMap == [k \in {} |-> ""]

\* labels[k] = v
MapPut(m, k, v) == [x \in (DOMAIN m) \cup {k} |-> IF x = k THEN v ELSE m[x]]

\* for k, v := range addition { labels[k] = v }
MapMerge(m, addition) ==
    [x \in (DOMAIN m) \cup (DOMAIN addition) |->
        IF x \in DOMAIN addition THEN addition[x] ELSE m[x]]

RECURSIVE MergeAll(_, _)
\* for _, addition := range additionalLabels { ... }
MergeAll(m, additions) ==
    IF additions = <<>> THEN m
    ELSE MergeAll(MapMerge(m, Head(additions)), Tail(additions))

\* whether map a is contained in map b (every entry of a is an entry of b)
SubMap(a, b) == \A k \in DOMAIN a : k \in DOMAIN b /\ b[k] = a[k]

KName == "app.kubernetes.io/name"

KManagedBy == "app.kubernetes.io/managed-by"

KInstance == "app.kubernetes.io/instance"

KOwner == "chianode-owner"

ReservedKeys == {KName, KManagedBy, KInstance, KOwner}

-----------------------------------------------------------------------------
(* Shared helpers *)

\* package-level getCommonLabels: labels common to all chia-operator objects
getCommonLabelsPkg(labels) ==
    MapPut(MapPut(labels, KName, "chia"), KManagedBy, "chia-operator")

\* getCommonLabels with the user's labels applied after the identity keys
getCommonLabelsUserLabelsLast(n, additionalLabels) ==
    MergeAll(getCommonLabelsPkg(
                MapPut(MapPut(EmptyMap, KInstance, n.name), KOwner, n.name)),
             additionalLabels)

\* (r *ChiaNodeReconciler) getCommonLabels(ctx, node, additionalLabels...)
getCommonLabels(n, additionalLabels) ==
    getCommonLabelsPkg(
        MapPut(MapPut(MergeAll(EmptyMap, additionalLabels), KInstance, n.name),
               KOwner, n.name))

\* getOwnerReference without the Controller field
getOwnerReferenceNoController(n) ==
    << [apiVersion |-> n.apiVersion, kind |-> n.kind, name |-> n.name,
        uid |-> n.uid, controller |-> FALSE] >>

\* (r *ChiaNodeReconciler) getOwnerReference
getOwnerReference(n) ==
    << [apiVersion |-> n.apiVersion, kind |-> n.kind, name |-> n.name,
        uid |-> n.uid, controller |-> controllerOwner] >>

\* (r *ChiaNodeReconciler) getFullNodePort
getFullNodePort(n) ==
    IF n.testnet.set
    THEN (IF n.testnet.val THEN testnetNodePort ELSE mainnetNodePort)
    ELSE mainnetNodePort

\* getChiaNodeEnv with the testnet entry appended whenever the field is set,
\* carrying the field's value
getChiaNodeEnvTestnetWhenSet(n) ==
    LET e1 == << [name |-> "service", value |-> "node"],
                 [name |-> "CHIA_ROOT", value |-> "/chia-data"],
                 [name |-> "keys", value |-> "none"],
                 [name |-> "ca", value |-> "/chia-ca"] >>
        e2 == IF n.testnet.set
              THEN Append(e1, [name |-> "testnet",
                               value |-> IF n.testnet.val THEN "true" ELSE "false"])
              ELSE e1
        e3 == IF n.timezone.set
              THEN Append(e2, [name |-> "TZ", value |-> n.timezone.val]) ELSE e2
        e4 == IF n.logLevel.set
              THEN Append(e3, [name |-> "log_level", value |-> n.logLevel.val]) ELSE e3
    IN  e4

\* (r *ChiaNodeReconciler) getChiaNodeEnv
getChiaNodeEnv(n) ==
    LET e1 == << [name |-> "service", value |-> "node"],
                 [name |-> "CHIA_ROOT", value |-> "/chia-data"],
                 [name |-> "keys", value |-> "none"],
                 [name |-> "ca", value |-> "/chia-ca"] >>
        e2 == IF n.testnet.set /\ n.testnet.val
              THEN Append(e1, [name |-> "testnet", value |-> "true"]) ELSE e1
        e3 == IF n.timezone.set
              THEN Append(e2, [name |-> "TZ", value |-> n.timezone.val]) ELSE e2
        e4 == IF n.logLevel.set
              THEN Append(e3, [name |-> "log_level", value |-> n.logLevel.val]) ELSE e3
    IN  e4

\* getChiaVolumesAndTemplates with `if` for the `else if` of the host path
getChiaVolumesAndTemplatesNoElse(n) ==
    LET v0 == << [name |-> "secret-ca", source |-> "secret",
                  ref |-> n.caSecretName] >>
        usePVC == n.storage.set /\ n.storage.chiaRoot.set
                    /\ n.storage.chiaRoot.pvc.set
        useHostPath == n.storage.set /\ n.storage.chiaRoot.set
                    /\ n.storage.chiaRoot.hostPath.set
        chiaRootAdded == usePVC \/ useHostPath
        vcts == IF usePVC
                THEN << [name |-> "chiaroot", accessModes |-> <<"ReadWriteOnce">>,
                         storageClassName |-> n.storage.chiaRoot.pvc.storageClass,
                         request |-> n.storage.chiaRoot.pvc.resourceRequest] >>
                ELSE << >>
        v1 == IF useHostPath
              THEN Append(v0, [name |-> "chiaroot", source |-> "hostPath",
                               ref |-> n.storage.chiaRoot.hostPath.path])
              ELSE v0
        v2 == IF ~chiaRootAdded
              THEN Append(v1, [name |-> "chiaroot", source |-> "emptyDir",
                               ref |-> ""])
              ELSE v1
    IN  [v |-> v2, vcts |-> vcts]

\* (r *ChiaNodeReconciler) getChiaVolumesAndTemplates: [v, vcts]
\* (resource.MustParse panics on a request that is no quantity; the ChiaNode
\* values of this model carry a request that parses)
getChiaVolumesAndTemplates(n) ==
    LET v0 == << [name |-> "secret-ca", source |-> "secret",
                  ref |-> n.caSecretName] >>
        usePVC == n.storage.set /\ n.storage.chiaRoot.set
                    /\ n.storage.chiaRoot.pvc.set
        useHostPath == n.storage.set /\ n.storage.chiaRoot.set
                    /\ ~n.storage.chiaRoot.pvc.set
                    /\ n.storage.chiaRoot.hostPath.set
        chiaRootAdded == usePVC \/ useHostPath
        vcts == IF usePVC
                THEN << [name |-> "chiaroot", accessModes |-> <<"ReadWriteOnce">>,
                         storageClassName |-> n.storage.chiaRoot.pvc.storageClass,
                         request |-> n.storage.chiaRoot.pvc.resourceRequest] >>
                ELSE << >>
        v1 == IF useHostPath
              THEN Append(v0, [name |-> "chiaroot", source |-> "hostPath",
                               ref |-> n.storage.chiaRoot.hostPath.path])
              ELSE v0
        v2 == IF ~chiaRootAdded
              THEN Append(v1, [name |-> "chiaroot", source |-> "emptyDir",
                               ref |-> ""])
              ELSE v1
    IN  [v |-> v2, vcts |-> vcts]

\* (r *ChiaNodeReconciler) getChiaVolumeMounts
getChiaVolumeMounts(n) ==
    << [name |-> "secret-ca", mountPath |-> "/chia-ca"],
       [name |-> "chiaroot", mountPath |-> "/chia-data"] >>

\* getChiaExporterContainer
getChiaExporterContainer(image) ==
    [name |-> "chia-exporter", image |-> image,
     env |-> << [name |-> "CHIA_ROOT", value |-> "/chia-data"] >>,
     ports |-> << [name |-> "metrics", port |-> chiaExporterPort] >>,
     volumeMounts |-> << [name |-> "chiaroot", mountPath |-> "/chia-data"] >>]

\* the three ports of the base, internal and headless Services
NodeServicePorts(n) ==
    << [name |-> "daemon", port |-> daemonPort, targetPort |-> "daemon"],
       [name |-> "peers", port |-> getFullNodePort(n), targetPort |-> "peers"],
       [name |-> "rpc", port |-> nodeRPCPort, targetPort |-> "rpc"] >>

-----------------------------------------------------------------------------
(* Resource synthesis *)

\* assembleBaseService with the name built from node.Namespace
assembleBaseServiceNamedByNamespace(n) ==
    [kind |-> "Service", name |-> n.namespace \o "-node", namespace |-> n.namespace,
     labels |-> getCommonLabels(n, <<n.labels>>),
     ownerReferences |-> getOwnerReference(n),
     type |-> n.serviceType, clusterIP |-> "", internalTrafficPolicy |-> "",
     ports |-> NodeServicePorts(n),
     selector |-> getCommonLabels(n, <<n.labels>>)]

assembleBaseService(n) ==
    [kind |-> "Service", name |-> n.name \o "-node", namespace |-> n.namespace,
     labels |-> getCommonLabels(n, <<n.labels>>),
     ownerReferences |-> getOwnerReference(n),
     type |-> n.serviceType, clusterIP |-> "", internalTrafficPolicy |-> "",
     ports |-> NodeServicePorts(n),
     selector |-> getCommonLabels(n, <<n.labels>>)]

assembleInternalService(n) ==
    [kind |-> "Service", name |-> n.name \o "-node-internal",
     namespace |-> n.namespace,
     labels |-> getCommonLabels(n, <<n.labels>>),
     ownerReferences |-> getOwnerReference(n),
     type |-> "ClusterIP", clusterIP |-> "", internalTrafficPolicy |-> "Local",
     ports |-> NodeServicePorts(n),
     selector |-> getCommonLabels(n, <<n.labels>>)]

assembleHeadlessService(n) ==
    [kind |-> "Service", name |-> n.name \o "-node-headless",
     namespace |-> n.namespace,
     labels |-> getCommonLabels(n, <<n.labels>>),
     ownerReferences |-> getOwnerReference(n),
     type |-> "ClusterIP", clusterIP |-> "None", internalTrafficPolicy |-> "",
     ports |-> NodeServicePorts(n),
     selector |-> getCommonLabels(n, <<n.labels>>)]

\* assembleChiaExporterService with the selector built like its labels
assembleChiaExporterServiceLabelsAsSelector(n) ==
    [kind |-> "Service", name |-> n.name \o "-node-metrics",
     namespace |-> n.namespace,
     labels |-> getCommonLabels(n, <<n.labels, n.exporterServiceLabels>>),
     ownerReferences |-> getOwnerReference(n),
     type |-> "ClusterIP", clusterIP |-> "", internalTrafficPolicy |-> "",
     ports |-> << [name |-> "metrics", port |-> chiaExporterPort,
                   targetPort |-> "metrics"] >>,
     selector |-> getCommonLabels(n, <<n.labels, n.exporterServiceLabels>>)]

assembleChiaExporterService(n) ==
    [kind |-> "Service", name |-> n.name \o "-node-metrics",
     namespace |-> n.namespace,
     labels |-> getCommonLabels(n, <<n.labels, n.exporterServiceLabels>>),
     ownerReferences |-> getOwnerReference(n),
     type |-> "ClusterIP", clusterIP |-> "", internalTrafficPolicy |-> "",
     ports |-> << [name |-> "metrics", port |-> chiaExporterPort,
                   targetPort |-> "metrics"] >>,
     selector |-> getCommonLabels(n, <<n.labels>>)]

\* assembleStatefulset with the selector built from the additional labels too
assembleStatefulsetLabelsInSelector(n) ==
    LET chiaExporterImage == IF n.exporterImage = ""
                             THEN defaultChiaExporterImage ELSE n.exporterImage
        vt == getChiaVolumesAndTemplates(n)
    IN  [kind |-> "StatefulSet", name |-> n.name \o "-node",
         namespace |-> n.namespace,
         labels |-> getCommonLabels(n, <<n.labels>>),
         ownerReferences |-> getOwnerReference(n),
         selector |-> getCommonLabels(n, <<n.labels>>),
         serviceName |-> n.name \o "-headless",
         templateLabels |-> getCommonLabels(n, <<n.labels>>),
         containers |->
            << [name |-> "chia", image |-> n.image,
                env |-> getChiaNodeEnv(n),
                ports |-> << [name |-> "daemon", port |-> daemonPort],
                             [name |-> "peers", port |-> getFullNodePort(n)],
                             [name |-> "rpc", port |-> nodeRPCPort] >>,
                volumeMounts |-> getChiaVolumeMounts(n)],
               getChiaExporterContainer(chiaExporterImage) >>,
         volumes |-> vt.v,
         volumeClaimTemplates |-> vt.vcts]

assembleStatefulset(n) ==
    LET chiaExporterImage == IF n.exporterImage = ""
                             THEN defaultChiaExporterImage ELSE n.exporterImage
        vt == getChiaVolumesAndTemplates(n)
    IN  [kind |-> "StatefulSet", name |-> n.name \o "-node",
         namespace |-> n.namespace,
         labels |-> getCommonLabels(n, <<n.labels>>),
         ownerReferences |-> getOwnerReference(n),
         selector |-> getCommonLabels(n, << >>),
         serviceName |-> n.name \o "-headless",
         templateLabels |-> getCommonLabels(n, <<n.labels>>),
         containers |->
            << [name |-> "chia", image |-> n.image,
                env |-> getChiaNodeEnv(n),
                ports |-> << [name |-> "daemon", port |-> daemonPort],
                             [name |-> "peers", port |-> getFullNodePort(n)],
                             [name |-> "rpc", port |-> nodeRPCPort] >>,
                volumeMounts |-> getChiaVolumeMounts(n)],
               getChiaExporterContainer(chiaExporterImage) >>,
         volumes |-> vt.v,
         volumeClaimTemplates |-> vt.vcts]

-----------------------------------------------------------------------------
(* ChiaNode values *)

Namespace == "default"

\* the second name is the first with a child's suffix: the names of its
\* children come as close to those of the first as names can
NodeNames == {"alpha", "alpha-node"}

\* the name whose ChiaNode the user of Spec creates, edits and deletes
Primary == "alpha"

Unset == [set |-> FALSE, val |-> ""]

UnsetBool == [set |-> FALSE, val |-> FALSE]

NoStorage ==
    [set |-> FALSE,
     chiaRoot |-> [set |-> FALSE,
                   pvc |-> [set |-> FALSE, storageClass |-> "", resourceRequest |-> ""],
                   hostPath |-> [set |-> FALSE, path |-> ""]]]

\* node.Spec.Storage with a ChiaRoot block holding the given descriptors
StorageWith(hasPVC, hasHostPath) ==
    [set |-> TRUE,
     chiaRoot |-> [set |-> TRUE,
                   pvc |-> IF hasPVC
                           THEN [set |-> TRUE, storageClass |-> "fast",
                                 resourceRequest |-> "250Gi"]
                           ELSE [set |-> FALSE, storageClass |-> "",
                                 resourceRequest |-> ""],
                   hostPath |-> IF hasHostPath
                                THEN [set |-> TRUE, path |-> "/mnt/chia"]
                                ELSE [set |-> FALSE, path |-> ""]]]

\* node.Spec.Storage set, its ChiaRoot nil
StorageNoChiaRoot == [NoStorage EXCEPT !.set = TRUE]

\* var node k8schianetv1.ChiaNode: the zero value
ZeroNode ==
    [name |-> "", namespace |-> "", uid |-> 0, rv |-> 0,
     apiVersion |-> "", kind |-> "",
     labels |-> EmptyMap, exporterServiceLabels |-> EmptyMap,
     exporterImage |-> "", serviceType |-> "", image |-> "",
     caSecretName |-> "", testnet |-> UnsetBool, timezone |-> Unset,
     logLevel |-> Unset, storage |-> NoStorage, ready |-> FALSE]

\* a ChiaNode as the API server stores it after defaulting
NewNode(name, uid, labels) ==
    [ZeroNode EXCEPT !.name = name, !.namespace = Namespace, !.uid = uid,
                     !.apiVersion = "k8s.chia.net/v1", !.kind = "ChiaNode",
                     !.labels = labels, !.serviceType = "ClusterIP",
                     !.image = "ghcr.io/chia-network/chia:latest",
                     !.caSecretName = "chia-ca"]

\* additional labels a user gives in Spec
PassLabels == {EmptyMap, [tier \in {"tier"} |-> "gold"]}

\* additional labels of SpecSynth, with attempts on the reserved keys
SynthLabels ==
    {EmptyMap,
     [k \in {"tier"} |-> "gold"],
     [k \in {KManagedBy} |-> "someone-else"],
     [k \in {"tier", KInstance, KName, KOwner} |->
        IF k = "tier" THEN "silver" ELSE "spoofed"]}

SynthServiceLabels ==
    {EmptyMap,
     [k \in {"scrape"} |-> "yes"],
     [k \in {"scrape", "tier", KOwner} |->
        IF k = "scrape" THEN "yes" ELSE IF k = "tier" THEN "bronze" ELSE "spoofed"]}

SynthStorages ==
    {NoStorage, StorageNoChiaRoot}
        \cup {StorageWith(p, h) : p \in BOOLEAN, h \in BOOLEAN}

SynthNodes ==
    {[NewNode(nm, 1, l) EXCEPT
        !.exporterServiceLabels = sl,
        !.testnet = tn, !.timezone = tz, !.logLevel = ll, !.storage = st] :
        nm \in NodeNames, l \in SynthLabels, sl \in SynthServiceLabels,
        tn \in {UnsetBool, [set |-> TRUE, val |-> TRUE], [set |-> TRUE, val |-> FALSE]},
        tz \in {Unset, [set |-> TRUE, val |-> "UTC"]},
        ll \in {Unset, [set |-> TRUE, val |-> "INFO"]},
        st \in SynthStorages}

-----------------------------------------------------------------------------
(* The store *)

\* the identity of a child object in the store
Key(obj) == <<obj.kind, obj.namespace, obj.name>>

EmptyStore == [k \in {} |-> ZeroNode]

\* ReconcileResource that creates an absent object and leaves an existing one
\* as it is
ReconcileResourceCreateOnly(st, obj, desiredState) ==
    IF desiredState = StatePresent
    THEN [k \in (DOMAIN st) \cup {Key(obj)} |->
            IF k \in DOMAIN st THEN st[k] ELSE obj]
    ELSE [k \in (DOMAIN st) \ {Key(obj)} |-> st[k]]

\* ResourceReconciler.ReconcileResource(desired, desiredState) when it succeeds:
\* present: create the object if absent, update it otherwise; absent: delete it
ReconcileResource(st, obj, desiredState) ==
    IF desiredState = StatePresent
    THEN [k \in (DOMAIN st) \cup {Key(obj)} |-> IF k = Key(obj) THEN obj ELSE st[k]]
    ELSE [k \in (DOMAIN st) \ {Key(obj)} |-> st[k]]

\* reconcileService
reconcileService(st, service) == ReconcileResource(st, service, StatePresent)

\* reconcileStatefulset that asks for the removal of a StatefulSet that differs
\* from the manifest, to have it created anew by the next pass
reconcileStatefulsetRecreate(st, stateful) ==
    IF Key(stateful) \in DOMAIN st /\ st[Key(stateful)] # stateful
    THEN ReconcileResource(st, stateful, StateAbsent)
    ELSE ReconcileResource(st, stateful, StatePresent)

\* reconcileStatefulset
reconcileStatefulset(st, stateful) == ReconcileResource(st, stateful, StatePresent)

\* errors: nil, a store error, or a store error wrapped by fmt.Errorf with the
\* resource and the request's namespaced name
Nil == [resource |-> "", spec |-> "", cause |-> "nil"]

StoreError(cause) == [resource |-> "", spec |-> "", cause |-> cause]

\* errors.IsNotFound
IsNotFound(err) == err.cause = "NotFound"

\* client.IgnoreNotFound
IgnoreNotFound(err) == IF IsNotFound(err) THEN Nil ELSE err

\* req.NamespacedName.String()
NamespacedName(nm) == Namespace \o "/" \o nm

\* fmt.Errorf("ChiaNodeReconciler ChiaNode=%s encountered error reconciling <resource>: %v", ...)
Wrap(nm, resource, err) ==
    [resource |-> resource, spec |-> NamespacedName(nm), cause |-> err.cause]

-----------------------------------------------------------------------------
(* ChiaNodeReconciler.Reconcile, one step per call to the store *)

\* the five children in the order Reconcile converges them
Order == <<"base", "internal", "headless", "metrics", "statefulset">>

\* the manifest Reconcile submits for a child
Assemble(child, n) ==
    CASE child = "base" -> assembleBaseService(n)
      [] child = "internal" -> assembleInternalService(n)
      [] child = "headless" -> assembleHeadlessService(n)
      [] child = "metrics" -> assembleChiaExporterService(n)
      [] child = "statefulset" -> assembleStatefulset(n)

\* one entry of the log of a pass: the store request and the error it returned
Entry(op, cause, selector) == [op |-> op, err |-> cause, selector |-> selector]

\* what a store write can fail with, whatever the state of the store
WriteFailures == {"Other"}

\* Get without the return of the not-found branch: the pass goes on with the
\* zero value of node
GetNotFoundFallsThrough(nm) ==
    /\ pc[nm] = "idle"
    /\ \E err \in {"nil", "NotFound", "Other"} :
        /\ err = "nil" => crs[nm] # << >>
        /\ err = "NotFound" => crs[nm] = << >>
        /\ trace' = [trace EXCEPT ![nm] = << Entry("get", err, EmptyMap) >>]
        /\ IF err = "nil" \/ err = "NotFound"
           THEN /\ node' = [node EXCEPT ![nm] =
                              IF err = "nil" THEN crs[nm][1] ELSE ZeroNode]
                /\ pc' = [pc EXCEPT ![nm] = "base"]
                /\ ret' = [ret EXCEPT ![nm] = [done |-> FALSE, err |-> Nil]]
           ELSE /\ node' = [node EXCEPT ![nm] = ZeroNode]
                /\ pc' = pc
                /\ ret' = [ret EXCEPT ![nm] =
                             [done |-> TRUE, err |-> IgnoreNotFound(StoreError(err))]]
    /\ UNCHANGED <<crs, store, first, budget, nextUID, synthVars>>

\* r.Get: the pass starts; the ChiaNode is found, not found, or the read fails
Get(nm) ==
    /\ pc[nm] = "idle"
    /\ \E err \in {"nil", "NotFound", "Other"} :
        /\ err = "nil" => crs[nm] # << >>
        /\ err = "NotFound" => crs[nm] = << >>
        /\ trace' = [trace EXCEPT ![nm] = << Entry("get", err, EmptyMap) >>]
        /\ IF err = "nil"
           THEN /\ node' = [node EXCEPT ![nm] = crs[nm][1]]
                /\ pc' = [pc EXCEPT ![nm] = "base"]
                /\ ret' = [ret EXCEPT ![nm] = [done |-> FALSE, err |-> Nil]]
           ELSE /\ node' = [node EXCEPT ![nm] = ZeroNode]
                /\ pc' = pc
                /\ ret' = [ret EXCEPT ![nm] =
                             [done |-> TRUE,
                              err |-> IF IsNotFound(StoreError(err)) THEN Nil
                                      ELSE IgnoreNotFound(StoreError(err))]]
    /\ UNCHANGED <<crs, store, first, budget, nextUID, synthVars>>

\* a convergence block without the return of its error branch: the pass goes
\* on to the next block
ConvergeNoAbort(nm, here, obj, st2, resource, there) ==
    /\ pc[nm] = here
    /\ \E err \in {"nil"} \cup WriteFailures :
        /\ trace' = [trace EXCEPT ![nm] = Append(@, Entry(here, err, obj.selector))]
        /\ first' = [first EXCEPT ![nm][here] =
                        IF @ = << >>
                        THEN << [selector |-> obj.selector,
                                 labels |-> node[nm].labels] >>
                        ELSE @]
        /\ store' = IF err # "nil" THEN store ELSE st2
        /\ pc' = [pc EXCEPT ![nm] = there]
        /\ ret' = ret
    /\ UNCHANGED <<crs, node, budget, nextUID, synthVars>>

\* a convergence block that, on an error, writes Ready=false to the status
\* before it returns
ConvergeMarksNotReady(nm, here, obj, st2, resource, there) ==
    /\ pc[nm] = here
    /\ \E err \in {"nil"} \cup WriteFailures :
        /\ trace' = [trace EXCEPT ![nm] = Append(@, Entry(here, err, obj.selector))]
        /\ first' = [first EXCEPT ![nm][here] =
                        IF @ = << >>
                        THEN << [selector |-> obj.selector,
                                 labels |-> node[nm].labels] >>
                        ELSE @]
        /\ IF err # "nil"
           THEN /\ store' = store
                /\ crs' = IF crs[nm] # << >> /\ crs[nm][1].uid = node[nm].uid
                          THEN [crs EXCEPT ![nm] = << [@[1] EXCEPT !.ready = FALSE] >>]
                          ELSE crs
                /\ pc' = [pc EXCEPT ![nm] = "idle"]
                /\ ret' = [ret EXCEPT ![nm] =
                             [done |-> TRUE,
                              err |-> Wrap(nm, resource, StoreError(err))]]
           ELSE /\ store' = st2
                /\ crs' = crs
                /\ pc' = [pc EXCEPT ![nm] = there]
                /\ ret' = ret
    /\ UNCHANGED <<node, budget, nextUID, synthVars>>

\* one convergence block of Reconcile: submit obj; on an error return it
\* wrapped, otherwise go on to the next block
Converge(nm, here, obj, st2, resource, there) ==
    /\ pc[nm] = here
    /\ \E err \in {"nil"} \cup WriteFailures :
        /\ trace' = [trace EXCEPT ![nm] = Append(@, Entry(here, err, obj.selector))]
        /\ first' = [first EXCEPT ![nm][here] =
                        IF @ = << >>
                        THEN << [selector |-> obj.selector,
                                 labels |-> node[nm].labels] >>
                        ELSE @]
        /\ IF err # "nil"
           THEN /\ store' = store
                /\ pc' = [pc EXCEPT ![nm] = "idle"]
                /\ ret' = [ret EXCEPT ![nm] =
                             [done |-> TRUE,
                              err |-> Wrap(nm, resource, StoreError(err))]]
           ELSE /\ store' = st2
                /\ pc' = [pc EXCEPT ![nm] = there]
                /\ ret' = ret
    /\ UNCHANGED <<crs, node, budget, nextUID, synthVars>>

ReconcileBase(nm) ==
    LET srv == assembleBaseService(node[nm])
    IN  Converge(nm, "base", srv, reconcileService(store, srv),
                 "node Service", "internal")

\* the internal Service's block without the return of its error branch
ReconcileInternalNoReturn(nm) ==
    LET srv == assembleInternalService(node[nm])
    IN  ConvergeNoAbort(nm, "internal", srv, reconcileService(store, srv),
                        "node Local Service", "headless")

ReconcileInternal(nm) ==
    LET srv == assembleInternalService(node[nm])
    IN  Converge(nm, "internal", srv, reconcileService(store, srv),
                 "node Local Service", "headless")

ReconcileHeadless(nm) ==
    LET srv == assembleHeadlessService(node[nm])
    IN  Converge(nm, "headless", srv, reconcileService(store, srv),
                 "node headless Service", "metrics")

\* the chia-exporter Service's block submitting the manifest of the block
\* before it (srv not assigned anew)
ReconcileExporterStaleSrv(nm) ==
    LET srv == assembleHeadlessService(node[nm])
    IN  Converge(nm, "metrics", srv, reconcileService(store, srv),
                 "node chia-exporter Service", "statefulset")

ReconcileExporter(nm) ==
    LET srv == assembleChiaExporterService(node[nm])
    IN  Converge(nm, "metrics", srv, reconcileService(store, srv),
                 "node chia-exporter Service", "statefulset")

ReconcileStatefulset(nm) ==
    LET stateful == assembleStatefulset(node[nm])
    IN  Converge(nm, "statefulset", stateful, reconcileStatefulset(store, stateful),
                 "node StatefulSet", "status")

\* what r.Status().Update answers for the pass-local node: the store refuses
\* the write when the ChiaNode is gone or is not the version that was read
StatusUpdateErrors(nm) ==
    IF crs[nm] = << >> \/ crs[nm][1].uid # node[nm].uid THEN {"NotFound", "Other"}
    ELSE IF crs[nm][1].rv # node[nm].rv THEN {"Conflict", "Other"}
    ELSE {"nil", "Other"}

\* UpdateStatus that logs the error of the status write and returns nil
UpdateStatusSwallowsError(nm) ==
    /\ pc[nm] = "status"
    /\ node' = [node EXCEPT ![nm].ready = TRUE]
    /\ \E err \in StatusUpdateErrors(nm) :
        /\ trace' = [trace EXCEPT ![nm] = Append(@, Entry("status", err, EmptyMap))]
        /\ crs' = IF err = "nil"
                  THEN [crs EXCEPT ![nm] = << [@[1] EXCEPT !.ready = node'[nm].ready] >>]
                  ELSE crs
        /\ ret' = [ret EXCEPT ![nm] = [done |-> TRUE, err |-> Nil]]
    /\ pc' = [pc EXCEPT ![nm] = "idle"]
    /\ UNCHANGED <<store, first, budget, nextUID, synthVars>>

\* node.Status.Ready = true; r.Status().Update(ctx, &node)
UpdateStatus(nm) ==
    /\ pc[nm] = "status"
    /\ node' = [node EXCEPT ![nm].ready = TRUE]
    /\ \E err \in StatusUpdateErrors(nm) :
        /\ trace' = [trace EXCEPT ![nm] = Append(@, Entry("status", err, EmptyMap))]
        /\ crs' = IF err = "nil"
                  THEN [crs EXCEPT ![nm] = << [@[1] EXCEPT !.ready = node'[nm].ready] >>]
                  ELSE crs
        /\ ret' = [ret EXCEPT ![nm] = [done |-> TRUE, err |-> StoreError(err)]]
    /\ pc' = [pc EXCEPT ![nm] = "idle"]
    /\ UNCHANGED <<store, first, budget, nextUID, synthVars>>

-----------------------------------------------------------------------------
(* The user of the cluster: creates, edits and deletes ChiaNode objects *)

CreateNode(nm) ==
    /\ budget[nm] > 0
    /\ crs[nm] = << >>
    /\ \E l \in PassLabels :
        crs' = [crs EXCEPT ![nm] = << NewNode(nm, nextUID, l) >>]
    /\ nextUID' = nextUID + 1
    /\ budget' = [budget EXCEPT ![nm] = @ - 1]
    /\ UNCHANGED <<store, pc, node, trace, ret, first, synthVars>>

\* an edit of the additional labels
EditNode(nm) ==
    /\ budget[nm] > 0
    /\ crs[nm] # << >>
    /\ \E l \in PassLabels \ {crs[nm][1].labels} :
        crs' = [crs EXCEPT ![nm] = << [@[1] EXCEPT !.labels = l, !.rv = @ + 1] >>]
    /\ budget' = [budget EXCEPT ![nm] = @ - 1]
    /\ UNCHANGED <<store, pc, node, trace, ret, first, nextUID, synthVars>>

DeleteNode(nm) ==
    /\ budget[nm] > 0
    /\ crs[nm] # << >>
    /\ crs' = [crs EXCEPT ![nm] = << >>]
    /\ budget' = [budget EXCEPT ![nm] = @ - 1]
    /\ UNCHANGED <<store, pc, node, trace, ret, first, nextUID, synthVars>>

-----------------------------------------------------------------------------
(* Specifications *)

Synthesized(n) == [done |-> TRUE, manifests |-> [i \in 1..Len(Order) |-> Assemble(Order[i], n)]]

NotSynthesized == [done |-> FALSE, manifests |-> << >>]

InitPass ==
    /\ crs = [nm \in NodeNames |-> << >>]
    /\ store = EmptyStore
    /\ pc = [nm \in NodeNames |-> "idle"]
    /\ node = [nm \in NodeNames |-> ZeroNode]
    /\ trace = [nm \in NodeNames |-> << >>]
    /\ ret = [nm \in NodeNames |-> [done |-> FALSE, err |-> Nil]]
    /\ first = [nm \in NodeNames |-> [c \in {Order[i] : i \in 1..Len(Order)} |-> << >>]]
    /\ nextUID = 1

Init ==
    /\ InitPass
    /\ budget = [nm \in NodeNames |-> IF nm = Primary THEN MaxUserOps ELSE 0]
    /\ synthIn = ZeroNode
    /\ synthOut = NotSynthesized

Next ==
    \E nm \in NodeNames :
        \/ Get(nm)
        \/ ReconcileBase(nm)
        \/ ReconcileInternal(nm)
        \/ ReconcileHeadless(nm)
        \/ ReconcileExporter(nm)
        \/ ReconcileStatefulset(nm)
        \/ UpdateStatus(nm)
        \/ CreateNode(nm)
        \/ EditNode(nm)
        \/ DeleteNode(nm)

Spec == Init /\ [][Next]_vars

\* SpecConc: a ChiaNode of every name is created once, and the passes of the
\* names (one worker per name) interleave at their store requests
InitConc ==
    /\ InitPass
    /\ budget = [nm \in NodeNames |-> 1]
    /\ synthIn = ZeroNode
    /\ synthOut = NotSynthesized

NextConc ==
    \E nm \in NodeNames :
        \/ Get(nm)
        \/ ReconcileBase(nm)
        \/ ReconcileInternal(nm)
        \/ ReconcileHeadless(nm)
        \/ ReconcileExporter(nm)
        \/ ReconcileStatefulset(nm)
        \/ UpdateStatus(nm)
        \/ CreateNode(nm)

SpecConc == InitConc /\ [][NextConc]_vars

\* the synthesis of one ChiaNode value
Synthesize ==
    /\ ~synthOut.done
    /\ synthOut' = Synthesized(synthIn)
    /\ UNCHANGED <<synthIn, passVars>>

InitSynth ==
    /\ InitPass
    /\ budget = [nm \in NodeNames |-> 0]
    /\ synthIn \in SynthNodes
    /\ synthOut = NotSynthesized

NextSynth == Synthesize

SpecSynth == InitSynth /\ [][NextSynth]_vars

-----------------------------------------------------------------------------
(* Notions the properties share *)

Children == {Order[i] : i \in 1..Len(Order)}

\* the text by which the returned error names the resource of a child
ResourceText(child) ==
    CASE child = "base" -> "node Service"
      [] child = "internal" -> "node Local Service"
      [] child = "headless" -> "node headless Service"
      [] child = "metrics" -> "node chia-exporter Service"
      [] child = "statefulset" -> "node StatefulSet"

\* the store holds, under the child's key, the manifest synthesized from n
Holds(child, n) ==
    /\ Key(Assemble(child, n)) \in DOMAIN store
    /\ store[Key(Assemble(child, n))] = Assemble(child, n)

\* the entries of the current pass of nm that are convergences of children
ChildEntries(nm) == {i \in 1..Len(trace[nm]) : trace[nm][i].op \in Children}

\* the current pass of nm has had a convergence fail
ConvergenceFailed(nm) == \E i \in ChildEntries(nm) : trace[nm][i].err # "nil"

\* the current pass of nm has issued the status write
StatusIssued(nm) == \E i \in 1..Len(trace[nm]) : trace[nm][i].op = "status"

\* the stored ChiaNode is the object the pass of nm read
SameObject(nm) == crs[nm] # << >> /\ crs[nm][1].uid = node[nm].uid

\* the keys of the store's children whose owner is the ChiaNode named nm
OwnedBy(nm) == {k \in DOMAIN store : store[k].ownerReferences[1].name = nm}

-----------------------------------------------------------------------------
(* C1: in any pass the status write is issued only after all five child      *)
(* convergences of that pass (base, internal, headless, metrics Service,    *)
(* StatefulSet) returned without error; in a pass where a convergence fails  *)
(* no status write is issued and the stored readiness flag is what the pass  *)
(* read when it started.                                                     *)
C1_StatusOnlyAfterAllConverged ==
    \A nm \in NodeNames :
        /\ \A i \in 1..Len(trace[nm]) :
              trace[nm][i].op = "status" =>
                 /\ i = Len(Order) + 2
                 /\ \A j \in 1..Len(Order) :
                       /\ trace[nm][j + 1].op = Order[j]
                       /\ trace[nm][j + 1].err = "nil"
        /\ ConvergenceFailed(nm) =>
              /\ ~StatusIssued(nm)
              /\ SameObject(nm) => crs[nm][1].ready = node[nm].ready
        /\ (crs[nm] # << >> /\ crs[nm][1].ready) =>
              \E k \in DOMAIN store : store[k].kind = "StatefulSet"
                                        /\ store[k].ownerReferences[1].uid = crs[nm][1].uid

C1_Witness ==
    \E nm \in NodeNames :
        /\ Len(trace[nm]) = Len(Order) + 2
        /\ trace[nm][Len(Order) + 2] = Entry("status", "nil", EmptyMap)
        /\ crs[nm] # << >> /\ crs[nm][1].ready

(* C2: children are converged in the order base, internal, headless, metrics,*)
(* StatefulSet; the first failure ends the pass: the children converged     *)
(* before it stay in the store as submitted, no later child is submitted,   *)
(* and the pass returns an error naming the resource and the Spec.          *)
C2_OrderedAbortOnFirstFailure ==
    \A nm \in NodeNames :
        LET t == trace[nm] IN
        /\ \A i \in ChildEntries(nm) : i >= 2 /\ i <= Len(Order) + 1 /\ t[i].op = Order[i - 1]
        /\ \A i \in 1..Len(t) : i < Len(t) => t[i].err = "nil"
        /\ \A i \in ChildEntries(nm) :
              IF t[i].err = "nil"
              THEN Holds(t[i].op, node[nm])
              ELSE /\ i = Len(t)
                   /\ pc[nm] = "idle"
                   /\ ret[nm].done
                   /\ ret[nm].err = [resource |-> ResourceText(t[i].op),
                                     spec |-> NamespacedName(nm),
                                     cause |-> t[i].err]
        /\ \A i \in 1..Len(Order) :
              pc[nm] = Order[i] => Len(t) = i /\ ~ret[nm].done

C2_Witness ==
    \E nm \in NodeNames :
        /\ Len(trace[nm]) = 3
        /\ trace[nm][3].op = "internal" /\ trace[nm][3].err # "nil"
        /\ Holds("base", node[nm])
        /\ Key(assembleHeadlessService(node[nm])) \notin DOMAIN store
        /\ crs[nm] # << >> /\ ~crs[nm][1].ready
        /\ ret[nm].err.resource = "node Local Service"

(* C3: a pass returns nil only if the fetch returned not-found, or the      *)
(* fetch, all five convergences and the status persist all succeeded; any   *)
(* other fetch error, any convergence error and any status-persist error is *)
(* returned to the caller as a non-nil error.                               *)
C3_NoErrorSwallowed ==
    \A nm \in NodeNames :
        LET t == trace[nm] IN
        /\ (pc[nm] = "idle" /\ t # << >>) => ret[nm].done
        /\ ret[nm].done =>
              /\ pc[nm] = "idle"
              /\ ret[nm].err = Nil <=>
                    \/ t[1] = Entry("get", "NotFound", EmptyMap)
                    \/ /\ Len(t) = Len(Order) + 2
                       /\ \A i \in 1..Len(t) : t[i].err = "nil"
        /\ \A i \in 1..Len(t) :
              (t[i].err # "nil" /\ ~(i = 1 /\ t[i].err = "NotFound")) =>
                 /\ ret[nm].done
                 /\ ret[nm].err # Nil
                 /\ ret[nm].err.cause = t[i].err

C3_Witness ==
    \E nm \in NodeNames :
        /\ Len(trace[nm]) = Len(Order) + 2
        /\ trace[nm][Len(Order) + 2].op = "status"
        /\ trace[nm][Len(Order) + 2].err = "Conflict"
        /\ ret[nm].done /\ ret[nm].err = StoreError("Conflict")

\* a pass whose fetch does not yield the ChiaNode ends at the fetch
C4_EndsAtFetch ==
    \A nm \in NodeNames :
        (trace[nm] # << >> /\ trace[nm][1].err # "nil") =>
            /\ Len(trace[nm]) = 1
            /\ pc[nm] = "idle"
            /\ ret[nm].done
            /\ ret[nm].err = IF trace[nm][1].err = "NotFound" THEN Nil
                             ELSE StoreError(trace[nm][1].err)

\* no step of such a pass writes the store
C4_NoWrite ==
    \A nm \in NodeNames :
        (pc[nm] # pc'[nm] \/ trace[nm] # trace'[nm]) =>
            (trace'[nm][1].err # "nil" => store' = store /\ crs' = crs)

(* C4: when the fetch of the triggering Spec does not yield it, the pass    *)
(* makes no store write (no child, no status): for not-found it returns nil *)
(* with no further action, for any other fetch error it returns that error. *)
C4_FetchFailureWritesNothing == []C4_EndsAtFetch /\ [][C4_NoWrite]_vars

C4_Witness ==
    \E nm \in NodeNames :
        /\ trace[nm] = << Entry("get", "NotFound", EmptyMap) >>
        /\ ret[nm] = [done |-> TRUE, err |-> Nil]
        /\ OwnedBy(nm) # {}
        /\ crs[nm] = << >>

\* the Spec part of a ChiaNode object: all but its status and version
SpecOf(n) == [n EXCEPT !.ready = FALSE, !.rv = 0]

\* the last pass of nm succeeded at every step, and the stored ChiaNode is
\* the object it read, with the Spec it read
PassSucceeded(nm) ==
    /\ pc[nm] = "idle"
    /\ ret[nm] = [done |-> TRUE, err |-> Nil]
    /\ trace[nm][1].err = "nil"
    /\ SameObject(nm)
    /\ SpecOf(crs[nm][1]) = SpecOf(node[nm])

\* whatever passes came before, a fully successful pass leaves exactly the
\* five children synthesized from the Spec, and Ready=true
C5_ConvergedState ==
    \A nm \in NodeNames :
        PassSucceeded(nm) =>
            /\ \A c \in Children : Holds(c, crs[nm][1])
            /\ OwnedBy(nm) = {Key(Assemble(c, crs[nm][1])) : c \in Children}
            /\ crs[nm][1].ready

\* a step of a pass that finds the store converged for its Spec changes nothing
C5_Idempotent ==
    \A nm \in NodeNames :
        ( /\ pc[nm] # "idle"
          /\ pc'[nm] # pc[nm]
          /\ \A c \in Children : Holds(c, node[nm])
          /\ SameObject(nm) /\ crs[nm][1].ready )
        => (store' = store /\ crs' = crs)

(* C5: retry after partial convergence is safe and idempotent: after any    *)
(* passes aborted at any child, one fully successful pass leaves the store  *)
(* with exactly the five children synthesized from the Spec and Ready=true, *)
(* and one more successful pass with the same Spec leaves it unchanged.     *)
C5_RetryIdempotent == []C5_ConvergedState /\ [][C5_Idempotent]_vars

C5_Witness ==
    \E nm \in NodeNames :
        /\ PassSucceeded(nm)
        /\ first[nm]["base"] # << >> /\ first[nm]["statefulset"] # << >>
        /\ first[nm]["base"][1].labels # first[nm]["statefulset"][1].labels
        /\ \A c \in Children : Holds(c, crs[nm][1])

\* no step removes a child object from the store
C6_NoRemoval == \A k \in DOMAIN store : k \in DOMAIN store'

(* C6: the driver never deletes or prunes: every request for a child asks   *)
(* for state present, so across any passes (successful, failed, after Spec  *)
(* edits) a child that exists in the store stays in it.                     *)
C6_NeverPrunes == [][C6_NoRemoval]_vars

C6_Witness ==
    \E nm \in NodeNames :
        /\ pc[nm] = "headless"
        /\ Cardinality(OwnedBy(nm)) = Len(Order)
        /\ ~Holds("statefulset", node[nm])

\* the selectors the current pass of nm submitted equal the first submitted
C8_SameAsFirst(nm, ops) ==
    \A i \in ChildEntries(nm) :
        trace[nm][i].op \in ops =>
            trace[nm][i].selector = first[nm][trace[nm][i].op][1].selector

(* C8 as stated: for one Spec identity the selector submitted for each      *)
(* Service and for the workload is, in every pass, also after edits of the  *)
(* Spec, the one the first pass submitted.                                  *)
C8_Original == \A nm \in NodeNames : C8_SameAsFirst(nm, Children)

(* C8 amended: the selector submitted for the workload is in every pass,    *)
(* also after edits of the Spec, the one first submitted, and the stored    *)
(* workload keeps it; the selector submitted for a Service is the one first *)
(* submitted as long as the Spec's additional labels are those of the first *)
(* submission.                                                              *)
C8_SelectorStability ==
    \A nm \in NodeNames :
        /\ C8_SameAsFirst(nm, {"statefulset"})
        /\ \A k \in OwnedBy(nm) :
              store[k].kind = "StatefulSet" =>
                 store[k].selector = first[nm]["statefulset"][1].selector
        /\ \A i \in ChildEntries(nm) :
              (trace[nm][i].op # "statefulset"
                 /\ node[nm].labels = first[nm][trace[nm][i].op][1].labels)
              => trace[nm][i].selector = first[nm][trace[nm][i].op][1].selector

C8_Witness ==
    \E nm \in NodeNames :
        /\ Len(trace[nm]) >= Len(Order) + 1
        /\ trace[nm][2].selector # first[nm]["base"][1].selector
        /\ trace[nm][Len(Order) + 1].selector = first[nm]["statefulset"][1].selector
        /\ node[nm].labels # first[nm]["statefulset"][1].labels

-----------------------------------------------------------------------------
(* Properties of the synthesis, under SpecSynth *)

\* the synthesized manifests, in the order of Order
Manifest(i) == synthOut.manifests[i]

(* C7 as stated: for every Spec the selectors of the four Services and the  *)
(* selector of the workload are one identical label set.                    *)
C7_Original ==
    synthOut.done =>
        \A i, j \in 1..Len(Order) : Manifest(i).selector = Manifest(j).selector

(* C7 amended: the selectors of the four Services and the labels of the     *)
(* workload's pod template are one identical label set, whatever the        *)
(* additional labels and the exporter's service labels; the workload's own  *)
(* selector is contained in that set, and equals it exactly when the        *)
(* additional labels set no key besides the four identity keys.             *)
C7_SelectorsAgree ==
    synthOut.done =>
        /\ \A i \in 1..4 : Manifest(i).kind = "Service"
                             /\ Manifest(i).selector = Manifest(5).templateLabels
        /\ Manifest(5).kind = "StatefulSet"
        /\ SubMap(Manifest(5).selector, Manifest(1).selector)
        /\ Manifest(5).selector = Manifest(1).selector
              <=> DOMAIN synthIn.labels \subseteq ReservedKeys

C7_Witness ==
    /\ synthOut.done
    /\ "tier" \in DOMAIN synthIn.labels
    /\ synthIn.exporterServiceLabels # EmptyMap
    /\ Manifest(4).labels # Manifest(4).selector
    /\ Manifest(5).selector # Manifest(3).selector

\* the storage sources named chiaroot of the synthesized workload: the plain
\* volumes and the claim templates together, each with its kind
ChiaRootSources ==
    LET vols == Manifest(5).volumes
        vcts == Manifest(5).volumeClaimTemplates
    IN  [i \in {i \in 1..Len(vols) : vols[i].name = "chiaroot"} |-> vols[i].source]
        @@ [i \in {Len(vols) + j : j \in {j \in 1..Len(vcts) : vcts[j].name = "chiaroot"}}
              |-> "persistentVolumeClaim"]

(* C9: for every storage configuration exactly one storage source named     *)
(* chiaroot is produced, counted over volumes and claim templates together: *)
(* the claim when a claim descriptor is set (also with a host path set),    *)
(* else the host path when one is set, else one empty directory.            *)
C9_StoragePrecedence ==
    synthOut.done =>
        LET cr == synthIn.storage.chiaRoot
            has == synthIn.storage.set /\ cr.set
            kinds == {ChiaRootSources[i] : i \in DOMAIN ChiaRootSources}
        IN  /\ Cardinality(DOMAIN ChiaRootSources) = 1
            /\ kinds = IF has /\ cr.pvc.set THEN {"persistentVolumeClaim"}
                       ELSE IF has /\ cr.hostPath.set THEN {"hostPath"}
                       ELSE {"emptyDir"}

C9_Witness ==
    /\ synthOut.done
    /\ synthIn.storage.set /\ synthIn.storage.chiaRoot.set
    /\ synthIn.storage.chiaRoot.pvc.set /\ synthIn.storage.chiaRoot.hostPath.set
    /\ Len(Manifest(5).volumeClaimTemplates) = 1
    /\ Len(Manifest(5).volumes) = 1

\* the environment of the synthesized workload's chia container
Env == Manifest(5).containers[1].env

Mandatory ==
    << [name |-> "service", value |-> "node"],
       [name |-> "CHIA_ROOT", value |-> "/chia-data"],
       [name |-> "keys", value |-> "none"],
       [name |-> "ca", value |-> "/chia-ca"] >>

\* the optional entries a Spec asks for, in the order testnet, TZ, log_level
Optional(testnetOn, n) ==
    (IF testnetOn THEN << [name |-> "testnet", value |-> "true"] >> ELSE << >>)
    \o (IF n.timezone.set THEN << [name |-> "TZ", value |-> n.timezone.val] >> ELSE << >>)
    \o (IF n.logLevel.set THEN << [name |-> "log_level", value |-> n.logLevel.val] >>
        ELSE << >>)

(* C10 as stated: testnet unset and timezone unset give exactly the four    *)
(* mandatory entries and no others; the optional entries follow the four    *)
(* only when their field is set.                                            *)
C10_Original ==
    synthOut.done =>
        /\ (~synthIn.testnet.set /\ ~synthIn.timezone.set) => Env = Mandatory
        /\ SubSeq(Env, 1, 4) = Mandatory
        /\ (synthIn.testnet.set /\ synthIn.testnet.val) =>
              Env[5] = [name |-> "testnet", value |-> "true"]
        /\ \A i \in 5..Len(Env) :
              /\ Env[i].name = "testnet" => synthIn.testnet.set
              /\ Env[i].name = "TZ" => synthIn.timezone.set
              /\ Env[i].name = "log_level" => synthIn.logLevel.set

(* C10 amended: testnet unset, timezone unset and log level unset give      *)
(* exactly the four mandatory entries service, CHIA_ROOT, keys, ca in that  *)
(* order; testnet=true adds exactly the one entry testnet="true"; the       *)
(* optional entries testnet, TZ, log_level follow the four in that order,   *)
(* TZ and log_level exactly when their field is set and testnet exactly     *)
(* when it is set to true; an unset field gets no entry.                    *)
C10_EnvList ==
    synthOut.done =>
        /\ (~synthIn.testnet.set /\ ~synthIn.timezone.set /\ ~synthIn.logLevel.set)
              => Env = Mandatory
        /\ Env = Mandatory \o Optional(synthIn.testnet.set /\ synthIn.testnet.val, synthIn)
        /\ (synthIn.testnet.set /\ synthIn.testnet.val) =>
              LET without == getChiaNodeEnv([synthIn EXCEPT !.testnet = UnsetBool])
              IN  /\ Len(Env) = Len(without) + 1
                  /\ Env = SubSeq(without, 1, 4)
                             \o << [name |-> "testnet", value |-> "true"] >>
                             \o SubSeq(without, 5, Len(without))

C10_Witness ==
    /\ synthOut.done
    /\ synthIn.testnet = [set |-> TRUE, val |-> TRUE]
    /\ ~synthIn.timezone.set
    /\ synthIn.logLevel.set
    /\ Len(Env) = 6

\* the labels a manifest must carry, given the user's label maps in the order
\* they are merged: the identity values under the four reserved keys, and under
\* every other key the value of the last map that sets it
ExpectedLabels(n, maps) ==
    [k \in ReservedKeys \cup UNION {DOMAIN maps[i] : i \in 1..Len(maps)} |->
        CASE k = KName -> "chia"
          [] k = KManagedBy -> "chia-operator"
          [] k = KInstance -> n.name
          [] k = KOwner -> n.name
          [] OTHER ->
                LET last == CHOOSE i \in 1..Len(maps) :
                                /\ k \in DOMAIN maps[i]
                                /\ \A j \in (i + 1)..Len(maps) : k \notin DOMAIN maps[j]
                IN  maps[last][k]]

(* C11: for any additional label maps, also ones that set                   *)
(* app.kubernetes.io/name, app.kubernetes.io/managed-by,                    *)
(* app.kubernetes.io/instance or chianode-owner, the labels getCommonLabels *)
(* returns carry "chia", "chia-operator", the Spec name and the Spec name   *)
(* under those keys, and every other user label unchanged (of two maps that *)
(* set the same key, the later one's value).                                *)
C11_IdentityLabelsWin ==
    synthOut.done =>
        /\ \A i \in {1, 2, 3, 5} :
              Manifest(i).labels = ExpectedLabels(synthIn, <<synthIn.labels>>)
        /\ Manifest(4).labels =
              ExpectedLabels(synthIn, <<synthIn.labels, synthIn.exporterServiceLabels>>)
        /\ \A i \in 1..Len(Order) :
              /\ \A k \in DOMAIN synthIn.labels \ ReservedKeys :
                    k \in DOMAIN Manifest(i).labels
              /\ Manifest(i).labels[KName] = "chia"
              /\ Manifest(i).labels[KManagedBy] = "chia-operator"
              /\ Manifest(i).labels[KInstance] = synthIn.name
              /\ Manifest(i).labels[KOwner] = synthIn.name

C11_Witness ==
    /\ synthOut.done
    /\ ReservedKeys \ {KManagedBy} \subseteq DOMAIN synthIn.labels
    /\ KOwner \in DOMAIN synthIn.exporterServiceLabels
    /\ synthIn.labels[KInstance] # synthIn.name
    /\ Manifest(4).labels[KOwner] = synthIn.name
    /\ Manifest(4).labels["tier"] = "bronze"
    /\ Manifest(1).labels["tier"] = "silver"

-----------------------------------------------------------------------------
(* Properties of the passes, under Spec (continued) *)

(* C12: every child a pass writes to the store (the four Services and the   *)
(* StatefulSet) carries exactly one owner reference, with controller=true,  *)
(* whose name and UID are those of the ChiaNode object the pass was run     *)
(* for; no child is in the store with no or with several owner references. *)
C12_SingleControllerOwner ==
    /\ \A k \in DOMAIN store :
          /\ Len(store[k].ownerReferences) = 1
          /\ store[k].ownerReferences[1].controller = TRUE
          /\ store[k].ownerReferences[1].name \in NodeNames
          /\ store[k].ownerReferences[1].uid \in 1..(nextUID - 1)
    /\ \A nm \in NodeNames :
          \A i \in ChildEntries(nm) :
              trace[nm][i].err = "nil" =>
                 /\ node[nm].name = nm
                 /\ store[Key(Assemble(trace[nm][i].op, node[nm]))].ownerReferences
                      = << [apiVersion |-> "k8s.chia.net/v1", kind |-> "ChiaNode",
                            name |-> nm, uid |-> node[nm].uid,
                            controller |-> TRUE] >>

C12_Witness ==
    \E nm \in NodeNames :
        /\ pc[nm] = "metrics"
        /\ Cardinality(OwnedBy(nm)) = Len(Order)
        /\ \E k \in OwnedBy(nm) : store[k].ownerReferences[1].uid # node[nm].uid
        /\ \E k \in OwnedBy(nm) : store[k].ownerReferences[1].uid = node[nm].uid

(* C13: the governing service name of the synthesized StatefulSet            *)
(* (spec.serviceName) is the name of the headless Service the same pass     *)
(* synthesizes and converges, so after a fully successful pass the          *)
(* workload's governing service exists in the store.                        *)
C13_GoverningServiceExists ==
    \A nm \in NodeNames :
        PassSucceeded(nm) =>
            LET stateful == store[Key(assembleStatefulset(node[nm]))]
            IN  /\ stateful.serviceName = assembleHeadlessService(node[nm]).name
                /\ <<"Service", stateful.namespace, stateful.serviceName>>
                      \in DOMAIN store

\* a status write that succeeds stores Ready=true
C14_WritesTrue ==
    \A nm \in NodeNames :
        (trace[nm] # << >>
            /\ trace[nm][Len(trace[nm])] = Entry("status", "nil", EmptyMap)
            /\ SameObject(nm))
        => crs[nm][1].ready

\* no step takes the readiness flag of a stored ChiaNode from true to false
C14_StaysTrue ==
    \A nm \in NodeNames :
        (crs[nm] # << >> /\ crs[nm][1].ready /\ crs'[nm] # << >>)
        => crs'[nm][1].ready

(* C14: the reconciler never writes Ready=false: once a pass has persisted  *)
(* the readiness flag as true for a ChiaNode, every later pass for it,      *)
(* successful or aborted on a convergence error, also after an edit of the  *)
(* Spec, leaves the stored flag true.                                       *)
C14_ReadyNeverCleared == []C14_WritesTrue /\ [][C14_StaysTrue]_vars

C14_Witness ==
    \E nm \in NodeNames :
        /\ ConvergenceFailed(nm)
        /\ SameObject(nm)
        /\ node[nm].ready
        /\ node[nm].rv > 0
        /\ crs[nm][1].ready
        /\ ~Holds("base", node[nm])

-----------------------------------------------------------------------------
(* Properties of concurrent passes, under SpecConc *)

\* the five keys the claim derives from a ChiaNode name
ExpectedKeys(nm) ==
    {<<"Service", Namespace, nm \o "-node">>,
     <<"Service", Namespace, nm \o "-node-internal">>,
     <<"Service", Namespace, nm \o "-node-headless">>,
     <<"Service", Namespace, nm \o "-node-metrics">>,
     <<"StatefulSet", Namespace, nm \o "-node">>}

\* the keys are five per name and disjoint between names, and every child in
\* the store is under a key of the name that owns it
C15_OwnKeys ==
    /\ \A n1, n2 \in NodeNames :
          n1 # n2 => ExpectedKeys(n1) \cap ExpectedKeys(n2) = {}
    /\ \A nm \in NodeNames :
          /\ Cardinality(ExpectedKeys(nm)) = Len(Order)
          /\ pc[nm] # "idle" =>
                {Key(Assemble(c, node[nm])) : c \in Children} = ExpectedKeys(nm)
    /\ \A k \in DOMAIN store :
          \E nm \in NodeNames :
              k \in ExpectedKeys(nm) /\ store[k].ownerReferences[1].name = nm

\* a step of the pass of one name leaves the children of every other name alone
C15_OthersUntouched ==
    \A nm \in NodeNames :
        trace'[nm] # trace[nm] =>
            \A other \in NodeNames \ {nm} :
                \A k \in ExpectedKeys(other) :
                    /\ k \in DOMAIN store' <=> k \in DOMAIN store
                    /\ k \in DOMAIN store => store'[k] = store[k]

(* C15: passes for different Spec identities never write the same store     *)
(* object: the five (kind, name) keys derived from one name are disjoint    *)
(* from those of another, and under any interleaving of their passes        *)
(* neither overwrites a child of the other.                                 *)
C15_DisjointChildren == []C15_OwnKeys /\ [][C15_OthersUntouched]_vars

C15_Witness ==
    /\ pc["alpha"] = "metrics"
    /\ pc["alpha-node"] = "headless"
    /\ Cardinality(OwnedBy("alpha")) = 3
    /\ Cardinality(OwnedBy("alpha-node")) = 2
    /\ <<"Service", Namespace, "alpha-node">> \in OwnedBy("alpha")
    /\ <<"Service", Namespace, "alpha-node-node">> \in OwnedBy("alpha-node")

====
